---- MODULE Spec2Model ----
(***************************************************************************)
(* ScriptJelly: DOM utility functions with feature-detection cascades.     *)
(*                                                                         *)
(* Part I   removeChildren(node, removeElements, forwards)                 *)
(*          one call, run step by step: every removeChild() call of a loop *)
(*          is one step, so that the order of removal is observable.       *)
(* Part II  replaceNode(original, replacement, options)                    *)
(*          a sequence of calls on one page, each call one step; the       *)
(*          fields replaceNode keeps on "this" outlive a call.             *)
(* Part III getAllComments(options)                                        *)
(*          one call, run step by step through the cascade of traversal    *)
(*          strategies, on every small container tree.                     *)
(***************************************************************************)
EXTENDS Integers, Sequences, FiniteSets, TLC

(***************************************************************************)
(* Bounds of the model.                                                    *)
(***************************************************************************)
MaxKids == 3

(***************************************************************************)
(* DOM node types (Node.nodeType).                                         *)
(***************************************************************************)
ELEMENT_NODE == 1
COMMENT_NODE == 8
DOCUMENT_NODE == 9
DOCUMENT_FRAGMENT_NODE == 11

\* Stands for an argument that is not a Node at all (no nodeType).
NotANode == ELEMENT_NODE - 1

\* Part I (removeChildren)
VARIABLES
    node,           \* nodeType of the value passed as "node" (NotANode: no Node)
    childTypes,     \* nodeType of each child the node had before the call
    childNodes,     \* the live child list: ids 1..Len(childTypes), in tree order
    removeElements, \* argument, as its truthiness
    forwards,       \* argument: "undefined", "truthy" or "falsy"
    api,            \* the properties of the node the browser supports
    ElementGlobal,  \* the global Element: "class", "falsy" or "undeclared"
    pc,             \* the method of removeChildren that is running
    inLoop,         \* FALSE: at the method's feature probe; TRUE: in its loop
    via,            \* the mechanism the running loop uses
    fallbacks,      \* methods still to try in the a() || b() || false chain
    current,        \* loop cursor of the sibling walks (0 is null)
    index,          \* loop index of the childNodes walks (0-based)
    ret,            \* result of the call
    removed         \* ids passed to node.removeChild(), in call order

\* Part II (replaceNode)
VARIABLES
    browser,        \* the DOM methods and properties the browser supports
    dom,            \* the forest: kids, type, cloneOf per node id
    copyNodes,      \* this.copyNodes
    getNewList,     \* this.getNewList
    replaceOnce,    \* this.replaceOnce
    isOrigList,     \* this.isOrigList
    replStaticList, \* this.replStaticList (<<>> while undefined)
    replNode,       \* this.replNode
    calls,          \* number of calls of replaceNode made
    call,           \* the arguments of the last call
    before,         \* the forest when the last call was made
    result          \* what the last call returned or threw

\* Part III (getAllComments)
VARIABLES
    container,      \* the tree under options.container: kids, type, text
    gcOptions,      \* the options argument: search, caseSensitive, wholeWord
    support,        \* the DOM traversal APIs the browser supports
    textProps,      \* the properties of a Comment that hold its text
    search,         \* the closure variable "search" (a RegExp once compiled)
    gcPc,           \* the step of getAllComments that runs next
    comments        \* what the call returned or threw

gcVars == <<container, gcOptions, support, textProps, search, gcPc, comments>>

rnVars == <<browser, dom, copyNodes, getNewList, replaceOnce, isOrigList,
            replStaticList, replNode, calls, call, before, result>>

rcVars == <<node, childTypes, childNodes, removeElements, forwards, api,
            ElementGlobal, pc, inLoop, via, fallbacks, current, index, ret,
            removed>>

vars == <<rcVars, rnVars, gcVars>>


(***************************************************************************)
(* Sequence helpers.                                                       *)
(***************************************************************************)
Range(s) == {s[i] : i \in DOMAIN s}

Last(s) == s[Len(s)]

Front(s) == SubSeq(s, 1, Len(s) - 1)

Reverse(s) == [i \in 1..Len(s) |-> s[Len(s) + 1 - i]]

Without(s, x) == SelectSeq(s, LAMBDA y : y # x)

IndexOf(s, x) == CHOOSE i \in DOMAIN s : s[i] = x

SeqsUpTo(S, n) == UNION {[1..k -> S] : k \in 0..n}

(***************************************************************************)
(* The DOM as removeChildren sees it.                                      *)
(***************************************************************************)
\* node.firstChild / node.lastChild (0 is null)
firstChild(kids) == IF kids = <<>> THEN 0 ELSE Head(kids)

lastChild(kids) == IF kids = <<>> THEN 0 ELSE Last(kids)

\* child.nextSibling / child.previousSibling of an attached child
nextSibling(kids, c) ==
    IF IndexOf(kids, c) = Len(kids) THEN 0 ELSE kids[IndexOf(kids, c) + 1]

previousSibling(kids, c) ==
    IF IndexOf(kids, c) = 1 THEN 0 ELSE kids[IndexOf(kids, c) - 1]

\* node.removeChild(c)
removeChild(kids, c) == Without(kids, c)

\* node.textContent = '': replaces all children of an Element or a
\* DocumentFragment; the setter of a Document does nothing.
setTextContentEmpty(nd, kids) ==
    IF nd \in {ELEMENT_NODE, DOCUMENT_FRAGMENT_NODE} THEN <<>> ELSE kids

\* node.childElementCount / node.children.length
childElementCount(types, kids) ==
    Cardinality({c \in Range(kids) : types[c] = ELEMENT_NODE})

(***************************************************************************)
(* Helpers of removeChildren.                                              *)
(***************************************************************************)
\* this.isNode (Node is a defined class in every modelled browser)
isNode(nd) == nd # NotANode

\* this.isElement: "throw" is the ReferenceError of an undeclared Element.
isElement(eg, t) ==
    IF eg = "class" THEN t = ELEMENT_NODE
    ELSE IF eg = "falsy" THEN t = DOCUMENT_NODE
    ELSE FALSE

isElementThrows(eg) == eg = "undeclared"

\* this.hasChildElements
hasChildElements(a, types, kids) ==
    IF "childElementCount" \in a THEN childElementCount(types, kids) # 0
    ELSE IF "children" \in a THEN childElementCount(types, kids) # 0
    ELSE TRUE

\* this.removeElements / removeElForwards / removeElBackwards: the chains
removeElementsChain == <<"elBackBySibl", "elForBySibl", "elBackByChildNodes">>

removeElForwards == <<"elForBySibl", "elForByChildNodes">>

removeElBackwards == <<"elBackBySibl", "elBackByChildNodes">>

\* this.tryMethods: the chain of methods the options select
tryMethods(re, fw) ==
    IF fw = "undefined"
    THEN (IF re THEN removeElementsChain ELSE <<"removeAll">>)
    ELSE IF fw = "truthy"
    THEN (IF re THEN removeElForwards ELSE <<"removeAllForwards">>)
    ELSE (IF re THEN removeElBackwards ELSE <<"removeAllBackwards">>)

\* The properties each method probes with the "in" operator.
Probes(m) ==
    CASE m = "removeAll" ->
            {"replaceChildren", "textContent", "innerHTML", "firstChild",
             "lastChild", "childNodes"}
      [] m \in {"removeAllForwards", "removeAllBackwards"} ->
            {"firstChild", "lastChild", "childNodes"}
      [] m = "elForBySibl" ->
            {"childElementCount", "children", "firstChild", "nextSibling"}
      [] m = "elBackBySibl" ->
            {"childElementCount", "children", "lastChild", "previousSibling"}
      [] OTHER -> {"childNodes"}

ProbedBy(re, fw) == UNION {Probes(tryMethods(re, fw)[i]) :
                              i \in DOMAIN tryMethods(re, fw)}

\* Child lists a node of the given type can have: a Document holds at most
\* one Element.
ChildLists(nd) ==
    IF nd = NotANode THEN {<<>>}
    ELSE {t \in SeqsUpTo({ELEMENT_NODE, COMMENT_NODE}, MaxKids) :
            nd = DOCUMENT_NODE =>
                Cardinality({i \in DOMAIN t : t[i] = ELEMENT_NODE}) <= 1}

(***************************************************************************)
(* Initial state: a node with its children; no call made yet.              *)
(***************************************************************************)
rcInit ==
    /\ node \in {NotANode, ELEMENT_NODE, DOCUMENT_NODE, DOCUMENT_FRAGMENT_NODE}
    /\ childTypes \in ChildLists(node)
    /\ childNodes = [i \in 1..Len(childTypes) |-> i]
    /\ removeElements = FALSE
    /\ forwards = "undefined"
    /\ api = {}
    /\ ElementGlobal = "class"
    /\ pc = "start"
    /\ inLoop = FALSE
    /\ via = "none"
    /\ fallbacks = <<>>
    /\ current = 0
    /\ index = 0
    /\ ret = "none"
    /\ removed = <<>>

(***************************************************************************)
(* Control: return from a method of the chain.                             *)
(***************************************************************************)
\* the method returned true: the || chain stops, removeChildren returns true
ReturnTrue ==
    /\ pc' = "done"
    /\ ret' = "true"
    /\ inLoop' = FALSE
    /\ fallbacks' = <<>>

\* the method returned false: the next method of the chain runs, or the
\* chain ends in false
ReturnFalse ==
    /\ inLoop' = FALSE
    /\ IF fallbacks = <<>>
       THEN /\ pc' = "done"
            /\ ret' = "false"
            /\ fallbacks' = fallbacks
       ELSE /\ pc' = Head(fallbacks)
            /\ ret' = ret
            /\ fallbacks' = Tail(fallbacks)

\* isElement raised a ReferenceError: the call ends with the exception
Throw(e) ==
    /\ pc' = "done"
    /\ ret' = e
    /\ inLoop' = FALSE
    /\ fallbacks' = <<>>

\* enter the loop of the running method
EnterLoop(mech) ==
    /\ inLoop' = TRUE
    /\ via' = mech
    /\ UNCHANGED <<pc, ret, fallbacks>>

\* node.removeChild(c) with the log of the calls
DoRemove(c) ==
    /\ childNodes' = removeChild(childNodes, c)
    /\ removed' = Append(removed, c)

(***************************************************************************)
(* removeChildren(node, removeElements, forwards): entry.                  *)
(* The browser is an input of the call. Only the properties the selected   *)
(* chain probes are enumerated: no other property is ever read.            *)
(***************************************************************************)
removeChildren ==
    /\ pc = "start"
    /\ \E re \in BOOLEAN, fw \in {"undefined", "truthy", "falsy"} :
       \E a \in SUBSET ProbedBy(re, fw) :
       \E eg \in (IF re THEN {"class", "falsy", "undeclared"} ELSE {"class"}) :
          \* innerHTML is a property of Elements only
          /\ ("innerHTML" \in a) => (node = ELEMENT_NODE)
          /\ removeElements' = re
          /\ forwards' = fw
          /\ api' = a
          /\ ElementGlobal' = eg
          /\ IF ~isNode(node)
             THEN \* checkParameter throws
                  /\ pc' = "done"
                  /\ ret' = "TypeError"
                  /\ fallbacks' = <<>>
             ELSE /\ pc' = Head(tryMethods(re, fw))
                  /\ ret' = ret
                  /\ fallbacks' = Tail(tryMethods(re, fw))
    /\ UNCHANGED <<node, childTypes, childNodes, inLoop, via, current, index,
                   removed, rnVars, gcVars>>

(***************************************************************************)
(* The child each removal loop passes to node.removeChild().               *)
(***************************************************************************)
\* removeAll: node.lastChild, or childNodes[childNodes.length - 1]
removeAllChild(kids, mech) ==
    IF mech = "sibling" THEN lastChild(kids) ELSE kids[Len(kids)]

\* removeAllForwards: node.firstChild, or childNodes[0]
removeAllForwardsChildMut(kids, mech) ==
    IF mech = "sibling" THEN lastChild(kids) ELSE kids[1]

removeAllForwardsChild(kids, mech) ==
    IF mech = "sibling" THEN firstChild(kids) ELSE kids[1]

\* removeAllBackwards: node.lastChild, or childNodes[childNodes.length - 1]
removeAllBackwardsChild(kids, mech) ==
    IF mech = "sibling" THEN lastChild(kids) ELSE kids[Len(kids)]

(***************************************************************************)
(* this.removeAll                                                          *)
(***************************************************************************)
removeAll ==
    /\ pc = "removeAll"
    /\ IF ~inLoop
       THEN IF "replaceChildren" \in api
            THEN \* node.replaceChildren()
                 /\ childNodes' = <<>>
                 /\ ReturnTrue
                 /\ UNCHANGED <<via, removed>>
            ELSE IF "textContent" \in api
            THEN \* node.textContent = ''
                 /\ childNodes' = setTextContentEmpty(node, childNodes)
                 /\ ReturnTrue
                 /\ UNCHANGED <<via, removed>>
            ELSE IF "innerHTML" \in api
            THEN \* node.innerHTML = ''
                 /\ childNodes' = <<>>
                 /\ ReturnTrue
                 /\ UNCHANGED <<via, removed>>
            ELSE IF "firstChild" \in api /\ "lastChild" \in api
            THEN EnterLoop("sibling") /\ UNCHANGED <<childNodes, removed>>
            ELSE IF "childNodes" \in api
            THEN EnterLoop("childNodes") /\ UNCHANGED <<childNodes, removed>>
            ELSE ReturnFalse /\ UNCHANGED <<via, childNodes, removed>>
       ELSE \* while (node.firstChild) / while (childNodes.length)
            IF childNodes # <<>>
            THEN /\ DoRemove(removeAllChild(childNodes, via))
                 /\ UNCHANGED <<pc, inLoop, via, fallbacks, ret>>
            ELSE ReturnTrue /\ UNCHANGED <<via, childNodes, removed>>
    /\ UNCHANGED <<node, childTypes, removeElements, forwards, api,
                   ElementGlobal, current, index, rnVars, gcVars>>

(***************************************************************************)
(* this.removeAllForwards                                                  *)
(***************************************************************************)
removeAllForwards ==
    /\ pc = "removeAllForwards"
    /\ IF ~inLoop
       THEN IF "firstChild" \in api /\ "lastChild" \in api
            THEN EnterLoop("sibling") /\ UNCHANGED <<childNodes, removed>>
            ELSE IF "childNodes" \in api
            THEN EnterLoop("childNodes") /\ UNCHANGED <<childNodes, removed>>
            ELSE ReturnFalse /\ UNCHANGED <<via, childNodes, removed>>
       ELSE \* while (node.lastChild) / while (childNodes.length)
            IF childNodes # <<>>
            THEN /\ DoRemove(removeAllForwardsChild(childNodes, via))
                 /\ UNCHANGED <<pc, inLoop, via, fallbacks, ret>>
            ELSE ReturnTrue /\ UNCHANGED <<via, childNodes, removed>>
    /\ UNCHANGED <<node, childTypes, removeElements, forwards, api,
                   ElementGlobal, current, index, rnVars, gcVars>>

(***************************************************************************)
(* this.removeAllBackwards                                                 *)
(***************************************************************************)
removeAllBackwards ==
    /\ pc = "removeAllBackwards"
    /\ IF ~inLoop
       THEN IF "firstChild" \in api /\ "lastChild" \in api
            THEN EnterLoop("sibling") /\ UNCHANGED <<childNodes, removed>>
            ELSE IF "childNodes" \in api
            THEN EnterLoop("childNodes") /\ UNCHANGED <<childNodes, removed>>
            ELSE ReturnFalse /\ UNCHANGED <<via, childNodes, removed>>
       ELSE \* while (node.firstChild) / while (childNodes.length)
            IF childNodes # <<>>
            THEN /\ DoRemove(removeAllBackwardsChild(childNodes, via))
                 /\ UNCHANGED <<pc, inLoop, via, fallbacks, ret>>
            ELSE ReturnTrue /\ UNCHANGED <<via, childNodes, removed>>
    /\ UNCHANGED <<node, childTypes, removeElements, forwards, api,
                   ElementGlobal, current, index, rnVars, gcVars>>

(***************************************************************************)
(* this.elForBySibl                                                        *)
(***************************************************************************)
elForBySibl ==
    /\ pc = "elForBySibl"
    /\ IF ~inLoop
       THEN IF ~hasChildElements(api, childTypes, childNodes)
            THEN ReturnTrue /\ UNCHANGED <<via, childNodes, removed, current>>
            ELSE IF "firstChild" \in api /\ "nextSibling" \in api
            THEN /\ EnterLoop("sibling")
                 /\ current' = firstChild(childNodes)
                 /\ UNCHANGED <<childNodes, removed>>
            ELSE ReturnFalse /\ UNCHANGED <<via, childNodes, removed, current>>
       ELSE \* while (current)
            IF current = 0
            THEN ReturnTrue /\ UNCHANGED <<via, childNodes, removed, current>>
            ELSE IF isElementThrows(ElementGlobal)
            THEN /\ Throw("ReferenceError")
                 /\ UNCHANGED <<via, childNodes, removed, current>>
            ELSE IF isElement(ElementGlobal, childTypes[current])
            THEN \* next = current.nextSibling; removeChild; current = next
                 /\ current' = nextSibling(childNodes, current)
                 /\ DoRemove(current)
                 /\ UNCHANGED <<pc, inLoop, via, fallbacks, ret>>
            ELSE /\ current' = nextSibling(childNodes, current)
                 /\ UNCHANGED <<pc, inLoop, via, fallbacks, ret, childNodes,
                                removed>>
    /\ UNCHANGED <<node, childTypes, removeElements, forwards, api,
                   ElementGlobal, index, rnVars, gcVars>>

(***************************************************************************)
(* this.elBackBySibl                                                       *)
(***************************************************************************)
elBackBySibl ==
    /\ pc = "elBackBySibl"
    /\ IF ~inLoop
       THEN IF ~hasChildElements(api, childTypes, childNodes)
            THEN ReturnTrue /\ UNCHANGED <<via, childNodes, removed, current>>
            ELSE IF "lastChild" \in api /\ "previousSibling" \in api
            THEN /\ EnterLoop("sibling")
                 /\ current' = lastChild(childNodes)
                 /\ UNCHANGED <<childNodes, removed>>
            ELSE ReturnFalse /\ UNCHANGED <<via, childNodes, removed, current>>
       ELSE \* while (current)
            IF current = 0
            THEN ReturnTrue /\ UNCHANGED <<via, childNodes, removed, current>>
            ELSE IF isElementThrows(ElementGlobal)
            THEN /\ Throw("ReferenceError")
                 /\ UNCHANGED <<via, childNodes, removed, current>>
            ELSE IF isElement(ElementGlobal, childTypes[current])
            THEN \* prev = current.previousSibling; removeChild; current = prev
                 /\ current' = previousSibling(childNodes, current)
                 /\ DoRemove(current)
                 /\ UNCHANGED <<pc, inLoop, via, fallbacks, ret>>
            ELSE /\ current' = previousSibling(childNodes, current)
                 /\ UNCHANGED <<pc, inLoop, via, fallbacks, ret, childNodes,
                                removed>>
    /\ UNCHANGED <<node, childTypes, removeElements, forwards, api,
                   ElementGlobal, index, rnVars, gcVars>>

(***************************************************************************)
(* this.elForByChildNodes                                                  *)
(***************************************************************************)
elForByChildNodes ==
    /\ pc = "elForByChildNodes"
    /\ IF ~inLoop
       THEN IF "childNodes" \in api
            THEN /\ EnterLoop("childNodes")
                 /\ index' = 0
                 /\ UNCHANGED <<childNodes, removed>>
            ELSE ReturnFalse /\ UNCHANGED <<via, childNodes, removed, index>>
       ELSE \* while (index < childNodes.length)
            IF ~(index < Len(childNodes))
            THEN ReturnTrue /\ UNCHANGED <<via, childNodes, removed, index>>
            ELSE IF isElementThrows(ElementGlobal)
            THEN /\ Throw("ReferenceError")
                 /\ UNCHANGED <<via, childNodes, removed, index>>
            ELSE IF isElement(ElementGlobal, childTypes[childNodes[index + 1]])
            THEN /\ DoRemove(childNodes[index + 1])
                 /\ UNCHANGED <<pc, inLoop, via, fallbacks, ret, index>>
            ELSE /\ index' = index + 1
                 /\ UNCHANGED <<pc, inLoop, via, fallbacks, ret, childNodes,
                                removed>>
    /\ UNCHANGED <<node, childTypes, removeElements, forwards, api,
                   ElementGlobal, current, rnVars, gcVars>>

(***************************************************************************)
(* this.elBackByChildNodes                                                 *)
(***************************************************************************)
elBackByChildNodes ==
    /\ pc = "elBackByChildNodes"
    /\ IF ~inLoop
       THEN IF "childNodes" \in api
            THEN /\ EnterLoop("childNodes")
                 /\ index' = Len(childNodes) - 1
                 /\ UNCHANGED <<childNodes, removed>>
            ELSE ReturnFalse /\ UNCHANGED <<via, childNodes, removed, index>>
       ELSE \* while (index >= 0)
            IF ~(index >= 0)
            THEN ReturnTrue /\ UNCHANGED <<via, childNodes, removed, index>>
            ELSE IF isElementThrows(ElementGlobal)
            THEN /\ Throw("ReferenceError")
                 /\ UNCHANGED <<via, childNodes, removed, index>>
            ELSE IF isElement(ElementGlobal, childTypes[childNodes[index + 1]])
            THEN /\ DoRemove(childNodes[index + 1])
                 /\ index' = index - 1
                 /\ UNCHANGED <<pc, inLoop, via, fallbacks, ret>>
            ELSE /\ index' = index - 1
                 /\ UNCHANGED <<pc, inLoop, via, fallbacks, ret, childNodes,
                                removed>>
    /\ UNCHANGED <<node, childTypes, removeElements, forwards, api,
                   ElementGlobal, current, rnVars, gcVars>>

rcNext ==
    \/ removeChildren
    \/ removeAll
    \/ removeAllForwards
    \/ removeAllBackwards
    \/ elForBySibl
    \/ elBackBySibl
    \/ elForByChildNodes
    \/ elBackByChildNodes


(***************************************************************************)
(* Properties of removeChildren.                                           *)
(***************************************************************************)
\* the children the node had when the call was made, in tree order
InitialChildren == [i \in 1..Len(childTypes) |-> i]

\* the children a call with these options is to remove, in tree order
Candidates ==
    IF removeElements
    THEN SelectSeq(InitialChildren, LAMBDA c : childTypes[c] = ELEMENT_NODE)
    ELSE InitialChildren

\* the candidates that are still children of the node
Remaining == SelectSeq(childNodes, LAMBDA c : c \in Range(Candidates))

\* the removal mechanisms removeAll / removeAllForwards / removeAllBackwards
\* can find in the browser
HasRemoveAllMechanism ==
    \/ forwards = "undefined" /\ api \cap {"replaceChildren", "textContent",
                                           "innerHTML", "childNodes"} # {}
    \/ forwards # "undefined" /\ "childNodes" \in api
    \/ {"firstChild", "lastChild"} \subseteq api

\* C2 (as claimed): removing all children. A return value of true implies
\* that the node has no child left, for any direction; false is returned
\* only when the browser supports no removal mechanism, and then the
\* children are unchanged.
C2_RemoveAllEmptiesNode ==
    (pc = "done" /\ ~removeElements) =>
        /\ (ret = "true") => (childNodes = <<>>)
        /\ (ret = "false") =>
               (~HasRemoveAllMechanism /\ childNodes = InitialChildren)

\* C3 (as claimed): removing Elements only. After a true return the child
\* list is exactly the original non-Element children in their original
\* order, whatever the direction, the fallback used and whether or not the
\* Element class is defined.
C3_OnlyElementsRemoved ==
    (pc = "done" /\ removeElements /\ ret = "true") =>
        childNodes = SelectSeq(InitialChildren,
                               LAMBDA c : childTypes[c] # ELEMENT_NODE)

\* C4: removal order. With forwards truthy the children are removed first
\* to last: at every step the candidates still attached are a suffix of the
\* candidates and the removeChild() calls made so far took the prefix in
\* order. With forwards defined and falsy they are removed last to first:
\* the candidates still attached are a prefix, and the calls took the
\* suffix from its end.
C4_RemovalOrder ==
    /\ (forwards = "truthy") =>
          \E k \in 0..Len(Candidates) :
             /\ removed = SubSeq(Candidates, 1, k)
             /\ Remaining = SubSeq(Candidates, k + 1, Len(Candidates))
    /\ (forwards = "falsy") =>
          \E k \in 0..Len(Candidates) :
             /\ Remaining = SubSeq(Candidates, 1, k)
             /\ removed = Reverse(SubSeq(Candidates, k + 1, Len(Candidates)))

\* C4 witness: a forward removal of Elements only through the childNodes
\* fallback, stopped between two removals, with a preserved non-Element
\* child in the list.
C4_Witness ==
    /\ forwards = "truthy"
    /\ removeElements
    /\ pc = "elForByChildNodes"
    /\ via = "childNodes"
    /\ Len(removed) = 1
    /\ Remaining # <<>>
    /\ Len(childNodes) > Len(Remaining)

(***************************************************************************)
(* Part II  replaceNode(original, replacement, options)                    *)
(*                                                                         *)
(* replaceNode is a plain function that keeps its fields and methods on    *)
(* "this". Its methods are handed around as bare functions and called as   *)
(* replaceFn(original), so they only find this.isDocument, this.copyNodes  *)
(* and the rest when "this" is the global object, i.e. when replaceNode is *)
(* called as a plain function of a classic script. The fields therefore    *)
(* live on the global object and outlive the call; they are the state of   *)
(* the program between two calls.                                          *)
(*                                                                         *)
(* One call is one step. The DOM is a forest of node ids with a child list *)
(* per node; cloneNode and createDocumentFragment take ids from a pool.    *)
(* HTML strings (replacement strings, byStringReplace) are not among the   *)
(* inputs of the model.                                                    *)
(***************************************************************************)
MaxFresh == 8
MaxCalls == 2

TEXT_NODE == 3

\* nodeType of an id of the pool that no node uses yet
Unallocated == NotANode

\* The page the calls work on.
DocA == 1       \* a Document; its root element is RootEl
RootEl == 2     \* attached Element, children ElA, ElB
ElA == 3        \* attached Element, no children
ElB == 4        \* attached Element, no children
ElU == 5        \* Element without parent, one child (ElUChild)
ElUChild == 6
ReplP == 7      \* Element without parent, one child (ReplPChild)
ReplPChild == 8
ReplL == 9      \* Element without parent, no children
DocB == 10      \* a second Document; its root element is DocBRoot
DocBRoot == 11
FragA == 12     \* a DocumentFragment with one child (FragAChild)
FragAChild == 13
WorldSize == 13

Ids == 1..(WorldSize + MaxFresh)

WorldType ==
    [i \in Ids |->
        IF i \in {DocA, DocB} THEN DOCUMENT_NODE
        ELSE IF i = FragA THEN DOCUMENT_FRAGMENT_NODE
        ELSE IF i <= WorldSize THEN ELEMENT_NODE
        ELSE Unallocated]

WorldKids ==
    [i \in Ids |->
        IF i = DocA THEN <<RootEl>>
        ELSE IF i = RootEl THEN <<ElA, ElB>>
        ELSE IF i = ElU THEN <<ElUChild>>
        ELSE IF i = ReplP THEN <<ReplPChild>>
        ELSE IF i = DocB THEN <<DocBRoot>>
        ELSE IF i = FragA THEN <<FragAChild>>
        ELSE <<>>]

\* The browsers: one for every branch of the two cascades
\* replaceWith / replaceChild / outerHTML and insertBefore / replaceChild.
Browsers ==
    {{"replaceWith", "replaceChild", "insertBefore", "outerHTML"},
     {"replaceChild", "outerHTML"},
     {"insertBefore", "outerHTML"},
     {}}

\* An argument value: a single value (a Node id, or NotANode for a value
\* that is neither a Node nor a list) or a list of such values.
Single(n) == [list |-> FALSE, array |-> FALSE, node |-> n, items |-> <<>>]

List(items, isArray) ==
    [list |-> TRUE, array |-> isArray, node |-> NotANode, items |-> items]

Originals ==
    {Single(ElA), Single(ElU), Single(DocA), Single(FragA),
     List(<<ElA, ElB>>, TRUE),
     List(<<ElU, NotANode>>, TRUE),
     List(<<ElU, NotANode>>, FALSE)}

Replacements ==
    {Single(ReplP), Single(ReplL), Single(DocB),
     List(<<ReplP, ReplL>>, TRUE),
     List(<<ReplL>>, TRUE)}

\* options: undefined, or an object with the three properties
NoOptions == [given |-> FALSE, copyNodes |-> FALSE, getNewList |-> FALSE,
              replaceOnce |-> FALSE]

Options ==
    {NoOptions} \cup
    [given : {TRUE}, copyNodes : BOOLEAN, getNewList : BOOLEAN,
     replaceOnce : BOOLEAN]

(***************************************************************************)
(* The DOM operations replaceNode calls. They work on the state s of a     *)
(* running call: s.kids, s.type and s.cloneOf are the forest, s.exc is the *)
(* exception that ended the call ("none" while it runs), s.last the node   *)
(* the last cloneNode, createDocumentFragment or createTextNode returned.  *)
(* After an exception every operation leaves s as it is.                   *)
(***************************************************************************)
Ok(s) == s.exc = "none"

Raise(s, e) == IF Ok(s) THEN [s EXCEPT !.exc = e] ELSE s

\* n.parentNode (0 is null)
parentNode(s, n) ==
    IF \E p \in Ids : n \in Range(s.kids[p])
    THEN CHOOSE p \in Ids : n \in Range(s.kids[p])
    ELSE 0

\* n.firstChild (0 is null)
firstChildOf(s, n) == firstChild(s.kids[n])

RECURSIVE InclusiveAncestors(_, _)
InclusiveAncestors(s, n) ==
    IF n = 0 THEN {} ELSE {n} \cup InclusiveAncestors(s, parentNode(s, n))

isDocument(s, v) == v # NotANode /\ s.type[v] = DOCUMENT_NODE

isDocumentFragment(s, v) == v # NotANode /\ s.type[v] = DOCUMENT_FRAGMENT_NODE

\* this.isNode of replaceNode
isNodeValue(v) == v # NotANode

\* the nodes an insertion of n puts into the tree: the children of a
\* DocumentFragment, else n itself
Inserted(s, n) == IF isDocumentFragment(s, n) THEN s.kids[n] ELSE <<n>>

InsertAt(seq, pos, items) ==
    SubSeq(seq, 1, pos - 1) \o items \o SubSeq(seq, pos, Len(seq))

\* "ensure pre-insertion validity" of the DOM: no Document as a child, no
\* cycle, and a Document parent holds Elements only and at most one.
InsertValid(s, p, n, replaced) ==
    /\ ~isDocument(s, n)
    /\ n \notin InclusiveAncestors(s, p)
    /\ isDocument(s, p) =>
          /\ \A c \in Range(Inserted(s, n)) : s.type[c] = ELEMENT_NODE
          /\ Cardinality(Range(Inserted(s, n))
                         \cup (Range(s.kids[p]) \ {replaced})) <= 1

\* the forest with n taken out of its parent (a DocumentFragment gives up
\* its children instead)
Taken(s, kids, n) ==
    IF isDocumentFragment(s, n)
    THEN [kids EXCEPT ![n] = <<>>]
    ELSE [q \in Ids |-> Without(kids[q], n)]

\* p.insertBefore(n, ref); ref = 0 appends
insertBefore(s, p, n, ref) ==
    IF ~Ok(s) THEN s
    ELSE IF ref # 0 /\ ref \notin Range(s.kids[p])
    THEN Raise(s, "NotFoundError")
    ELSE IF ~InsertValid(s, p, n, 0) THEN Raise(s, "HierarchyRequestError")
    ELSE LET r == IF ref = n THEN nextSibling(s.kids[p], n) ELSE ref
             items == Inserted(s, n)
             k1 == Taken(s, s.kids, n)
             pos == IF r = 0 THEN Len(k1[p]) + 1 ELSE IndexOf(k1[p], r)
         IN  [s EXCEPT !.kids = [k1 EXCEPT ![p] = InsertAt(k1[p], pos, items)]]

\* p.appendChild(n)
appendChild(s, p, n) == insertBefore(s, p, n, 0)

\* p.removeChild(c)
removeChildOf(s, p, c) ==
    IF ~Ok(s) THEN s
    ELSE IF c \notin Range(s.kids[p]) THEN Raise(s, "NotFoundError")
    ELSE [s EXCEPT !.kids[p] = removeChild(s.kids[p], c)]

\* p.replaceChild(new, old)
replaceChild(s, p, new, old) ==
    IF ~Ok(s) THEN s
    ELSE IF old \notin Range(s.kids[p]) THEN Raise(s, "NotFoundError")
    ELSE IF ~InsertValid(s, p, new, old)
    THEN Raise(s, "HierarchyRequestError")
    ELSE LET nx == nextSibling(s.kids[p], old)
             r == IF nx = new THEN nextSibling(s.kids[p], new) ELSE nx
             items == Inserted(s, new)
             k0 == [s.kids EXCEPT ![p] = Without(@, old)]
             k1 == Taken(s, k0, new)
             pos == IF r = 0 THEN Len(k1[p]) + 1 ELSE IndexOf(k1[p], r)
         IN  [s EXCEPT !.kids = [k1 EXCEPT ![p] = InsertAt(k1[p], pos, items)]]

\* old.replaceWith(new), old has a parent
replaceWith(s, old, new) == replaceChild(s, parentNode(s, old), new, old)

\* a new node of type t, copied from node from (0: from nothing)
Alloc(s, t, from) ==
    IF ~Ok(s) THEN s
    ELSE IF \A i \in Ids : s.type[i] # Unallocated
    THEN Raise(s, "PoolExhausted")
    ELSE LET i == CHOOSE j \in Ids :
                     /\ s.type[j] = Unallocated
                     /\ \A m \in Ids : s.type[m] = Unallocated => j <= m
         IN  [s EXCEPT !.type[i] = t, !.cloneOf[i] = from, !.last = i]

\* document.createDocumentFragment()
createDocumentFragment(s) == Alloc(s, DOCUMENT_FRAGMENT_NODE, 0)

\* n.cloneNode(true): the copy is s.last
RECURSIVE cloneNode(_, _)
RECURSIVE cloneChildren(_, _, _)
cloneChildAdded(s1, copy, rest) ==
    IF ~Ok(s1) THEN s1
    ELSE cloneChildren([s1 EXCEPT !.kids[copy] = Append(@, s1.last)], copy,
                       rest)

cloneChildren(s, copy, list) ==
    IF ~Ok(s) THEN s
    ELSE IF list = <<>> THEN [s EXCEPT !.last = copy]
    ELSE cloneChildAdded(cloneNode(s, Head(list)), copy, Tail(list))

cloneInto(s1, list) == cloneChildren(s1, s1.last, list)

cloneNode(s, n) ==
    IF ~Ok(s) THEN s ELSE cloneInto(Alloc(s, s.type[n], n), s.kids[n])

\* this.removeChildren of replaceNode
clearChildren(s, n) == IF ~Ok(s) THEN s ELSE [s EXCEPT !.kids[n] = <<>>]

\* dest.appendChild(the node just made)
appendLast(s1, dest) == appendChild(s1, dest, s1.last)

\* this.copyToTarget, copy branch: appends a deep copy of every child
RECURSIVE copyEach(_, _, _)
copyEach(s, list, dest) ==
    IF ~Ok(s) \/ list = <<>> THEN s
    ELSE copyEach(appendLast(cloneNode(s, Head(list)), dest), Tail(list), dest)

\* this.copyToTarget, move branch: while (src.firstChild) appendChild
RECURSIVE moveEach(_, _, _)
moveEach(s, src, dest) ==
    IF ~Ok(s) \/ s.kids[src] = <<>> THEN s
    ELSE IF src = dest THEN Raise(s, "EndlessLoop")
    ELSE moveEach(appendChild(s, dest, Head(s.kids[src])), src, dest)

copyToTarget(s, src, dest, copy) ==
    IF copy THEN copyEach(s, s.kids[src], dest) ELSE moveEach(s, src, dest)

(***************************************************************************)
(* The methods of replaceNode. Beside the forest, the state s of a running *)
(* call holds the fields of "this" (copyNodes, getNewList, replaceOnce,    *)
(* isOrigList, static for replStaticList, replNode), the arguments         *)
(* (original, replacement), the entries of the "original" list (orig,      *)
(* which the call may overwrite), the local numRepl and listCopies, and    *)
(* res, the value the last replacement method returned.                    *)
(* An index (idx) is 1-based here; 0 stands for an index left undefined.   *)
(* A state named s1 comes with s1.last set to the node the method works    *)
(* with (src, entry, replEntry, docFrag).                                  *)
(***************************************************************************)
\* entries of this.replNode and of listCopies: a Node or a sub-Array
NodeEntry(n) == [arr |-> FALSE, n |-> n, a |-> <<>>]

ArrayEntry(a) == [arr |-> TRUE, n |-> NotANode, a |-> a]

SetRes(s, b) == IF Ok(s) THEN [s EXCEPT !.res = b] ELSE s

SetLast(s, n) == IF Ok(s) THEN [s EXCEPT !.last = n] ELSE s

Push(s, e) == IF Ok(s) THEN [s EXCEPT !.replNode = Append(@, e)] ELSE s

Unshift(s, e) == IF Ok(s) THEN [s EXCEPT !.replNode = <<e>> \o @] ELSE s

Count(s) == IF Ok(s) THEN [s EXCEPT !.numRepl = @ + 1] ELSE s

\* this.copyChildren: the entry it adds for the children of srcCont
copyChildren(s, srcCont) ==
    IF Len(s.kids[srcCont]) = 1
    THEN NodeEntry(s.kids[srcCont][1])
    ELSE ArrayEntry(s.kids[srcCont])

\* this.copyListNodes: the inner loop runs to listCopies.length
copyListNodes(s) ==
    IF ~Ok(s) \/ ~s.getNewList \/ s.listCopies = <<>> THEN s
    ELSE LET n == Len(s.listCopies)
             flat(e) == IF e.arr
                        THEN [i \in 1..n |->
                                 IF i <= Len(e.a) THEN e.a[i] ELSE NotANode]
                        ELSE <<e.n>>
             RECURSIVE cat(_)
             cat(i) == IF i > n THEN <<>>
                       ELSE flat(s.listCopies[i]) \o cat(i + 1)
         IN  Push(s, ArrayEntry(cat(1)))

\* the node the method works with: a deep copy of n, or n itself
copyOrSame(s, copy, n) == IF copy THEN cloneNode(s, n) ELSE SetLast(s, n)

\* parent.replaceChild(the node just made, destEl)
replaceByLast(s1, parent, destEl) == replaceChild(s1, parent, s1.last, destEl)

\* this.tryOuterHTML: destEl.outerHTML = srcEl.outerHTML puts a parsed copy
\* of an Element in the place of destEl; a node without outerHTML gives the
\* text "undefined"; a child of a Document refuses the assignment.
tryOuterHTML(s, destEl, srcEl) ==
    IF isDocument(s, parentNode(s, destEl))
    THEN Raise(s, "NoModificationAllowedError")
    ELSE SetRes(replaceByLast(IF s.type[srcEl] = ELEMENT_NODE
                              THEN cloneNode(s, srcEl)
                              ELSE Alloc(s, TEXT_NODE, 0),
                              parentNode(s, destEl), destEl),
                TRUE)

\* this.directReplaceMethods with tryReplaceWith and tryReplaceChild
directReplaceMethods(s, oldNode, newNode) ==
    IF ~Ok(s) THEN s
    ELSE IF "replaceWith" \in s.api
    THEN SetRes(replaceWith(s, oldNode, newNode), TRUE)
    ELSE IF parentNode(s, oldNode) # 0 /\ "replaceChild" \in s.api
    THEN SetRes(replaceChild(s, parentNode(s, oldNode), newNode, oldNode),
                TRUE)
    ELSE IF "outerHTML" \in s.api /\ s.type[oldNode] = ELEMENT_NODE
    THEN tryOuterHTML(s, oldNode, newNode)
    ELSE SetRes(s, FALSE)

\* byDirectReplace, original with a parent: after directReplaceMethods
directReplaced(s2, src) ==
    IF Ok(s2) /\ s2.res /\ s2.getNewList /\ ~isDocumentFragment(s2, src)
    THEN Push(s2, NodeEntry(src))
    ELSE s2

\* byDirectReplace, original without a parent: after removeChildren
directRefill(s2, origNode, replacement, src) ==
    IF firstChildOf(s2, replacement) # 0
    THEN copyToTarget(s2, src, origNode, s2.copyNodes)
    ELSE appendChild(s2, origNode, replacement)

directRefilled(s3, origNode) ==
    SetRes(IF s3.getNewList THEN Push(s3, NodeEntry(origNode)) ELSE s3, TRUE)

\* byDirectReplace once src is chosen (s1.last)
directWithSrc(s1, origNode, idx, replacement) ==
    IF ~Ok(s1) THEN s1
    ELSE IF isDocumentFragment(s1, origNode)
    THEN SetRes(appendChild(clearChildren(s1, origNode), origNode, s1.last),
                TRUE)
    ELSE IF parentNode(s1, origNode) # 0
    THEN directReplaced(directReplaceMethods(s1, origNode, s1.last), s1.last)
    ELSE IF idx # 0 /\ s1.original.array
    THEN SetRes([s1 EXCEPT !.orig[idx] = replacement], TRUE)
    ELSE directRefilled(directRefill(clearChildren(s1, origNode), origNode,
                                     replacement, s1.last),
                        origNode)

\* this.byDirectReplace
byDirectReplace(s, origNode, idx) ==
    IF ~Ok(s) THEN s
    ELSE IF isDocument(s, s.replacement.node)
    THEN IF isDocument(s, origNode)
         THEN SetRes(copyToTarget(clearChildren(s, origNode),
                                  s.replacement.node, origNode, s.copyNodes),
                     TRUE)
         ELSE Raise(s, "TypeError")
    ELSE directWithSrc(copyOrSame(s, s.copyNodes, s.replacement.node),
                       origNode, idx, s.replacement.node)

\* makeCopy of insertEachBefore, replaceChildWithEach and appendEach:
\* this.isOrigList ? true : this.cloneNodes, and no cloneNodes is ever set
makeCopy(s) == IF s.isOrigList THEN TRUE ELSE FALSE

\* listCopies.push(entry) or this.copyChildren(entry, listCopies, false)
keepCopy(s1) ==
    IF ~s1.getNewList THEN s1
    ELSE [s1 EXCEPT !.listCopies =
             Append(@, IF isDocumentFragment(s1, s1.last)
                       THEN copyChildren(s1, s1.last)
                       ELSE NodeEntry(s1.last))]

\* one entry (s1.last) of the loop of insertEachBefore (docFrag = 0) or of
\* replaceChildWithEach (docFrag is its DocumentFragment)
eachEntry(s1, isOrigDoc, nodeParent, posNode, docFrag) ==
    IF ~Ok(s1) THEN s1
    ELSE IF isDocument(s1, s1.last)
    THEN (IF ~isOrigDoc THEN Raise(s1, "TypeError") ELSE s1)
    ELSE IF docFrag = 0
    THEN insertBefore(keepCopy(s1), nodeParent, s1.last, posNode)
    ELSE appendChild(keepCopy(s1), docFrag, s1.last)

RECURSIVE eachLoop(_, _, _, _, _, _)
eachLoop(s, i, isOrigDoc, nodeParent, posNode, docFrag) ==
    IF ~Ok(s) \/ i > Len(s.static) THEN s
    ELSE IF ~isNodeValue(s.static[i]) THEN Raise(s, "TypeError")
    ELSE eachLoop(eachEntry(copyOrSame(s, makeCopy(s), s.static[i]),
                            isOrigDoc, nodeParent, posNode, docFrag),
                  i + 1, isOrigDoc, nodeParent, posNode, docFrag)

\* this.insertEachBefore
insertEachBefore(s, origNode, nodeParent, posNode) ==
    SetRes(removeChildOf(
              copyListNodes(eachLoop([s EXCEPT !.listCopies = <<>>], 1,
                                     isDocument(s, origNode), nodeParent,
                                     posNode, 0)),
              nodeParent, posNode),
           TRUE)

\* replaceChildWithEach once docFrag is made (s0.last)
replaceChildWithFrag(s0, isOrigDoc, nodeParent, posNode) ==
    IF ~Ok(s0) THEN s0
    ELSE SetRes(replaceChild(
                   copyListNodes(eachLoop([s0 EXCEPT !.listCopies = <<>>], 1,
                                          isOrigDoc, nodeParent, posNode,
                                          s0.last)),
                   nodeParent, s0.last, posNode),
                TRUE)

\* this.replaceChildWithEach
replaceChildWithEach(s, origNode, nodeParent, posNode) ==
    replaceChildWithFrag(createDocumentFragment(s), isDocument(s, origNode),
                         nodeParent, posNode)

\* this.replaceEachMethods
replaceEachMethods(s, origNode, nodeParent, posNode) ==
    IF ~Ok(s) THEN s
    ELSE IF "insertBefore" \in s.api
    THEN insertEachBefore(s, origNode, nodeParent, posNode)
    ELSE IF "replaceChild" \in s.api
    THEN replaceChildWithEach(s, origNode, nodeParent, posNode)
    ELSE SetRes(s, FALSE)

\* appendEach: if (index === lastIndex && this.getNewList)
keepLast(s1, keep) ==
    IF ~keep THEN s1
    ELSE IF isDocument(s1, s1.last) \/ isDocumentFragment(s1, s1.last)
            \/ firstChildOf(s1, s1.last) # 0
    THEN Push(s1, copyChildren(s1, s1.last))
    ELSE Push(s1, NodeEntry(s1.last))

\* one entry (s1.last) of the loop of appendEach, after removeChildren
appendEntry(s1, keep, isOrigDoc, origNode) ==
    IF ~Ok(s1) THEN s1
    ELSE IF isDocument(s1, s1.last) /\ ~isOrigDoc THEN Raise(s1, "TypeError")
    ELSE IF isDocument(s1, s1.last)
            \/ (~isDocumentFragment(s1, s1.last)
                /\ firstChildOf(s1, s1.last) # 0)
    THEN copyToTarget(keepLast(s1, keep), s1.last, origNode, ~makeCopy(s1))
    ELSE appendChild(keepLast(s1, keep), origNode, s1.last)

RECURSIVE appendLoop(_, _, _, _)
appendLoop(s, i, isOrigDoc, origNode) ==
    IF ~Ok(s) \/ i > Len(s.static) THEN s
    ELSE IF ~isNodeValue(s.static[i]) THEN Raise(s, "TypeError")
    ELSE appendLoop(
            appendEntry(copyOrSame(clearChildren(s, origNode), makeCopy(s),
                                   s.static[i]),
                        i = Len(s.static) /\ s.getNewList, isOrigDoc,
                        origNode),
            i + 1, isOrigDoc, origNode)

\* this.appendEach
appendEach(s, origNode) == appendLoop(s, 1, isDocument(s, origNode), origNode)

\* this.replStaticList is set once: if (!this.replStaticList)
setStaticList(s) ==
    IF s.static = <<>> THEN [s EXCEPT !.static = s.replacement.items] ELSE s

\* listReplaceEach: original[index] = origNode = createDocumentFragment()
appendToNewFragment(s1, idx) ==
    IF ~Ok(s1) THEN s1
    ELSE SetRes(appendEach([s1 EXCEPT !.orig[idx] = s1.last], s1.last), TRUE)

\* listReplaceEach once this.replStaticList is there
listReplaceEachStatic(s0, origNode, idx) ==
    IF parentNode(s0, origNode) # 0
    THEN replaceEachMethods(s0, origNode, parentNode(s0, origNode), origNode)
    ELSE IF ~isDocument(s0, origNode) /\ ~isDocumentFragment(s0, origNode)
            /\ idx # 0 /\ s0.original.array
    THEN appendToNewFragment(createDocumentFragment(s0), idx)
    ELSE SetRes(appendEach(s0, origNode), TRUE)

\* this.listReplaceEach
listReplaceEach(s, origNode, idx) ==
    IF ~Ok(s) THEN s ELSE listReplaceEachStatic(setStaticList(s), origNode, idx)

\* listReplaceOnce: this.getNewList ? this.replNode = ... : numRepl++
onceKeep(s1, e) ==
    IF s1.getNewList THEN Unshift(s1, e) ELSE Count(s1)

\* this.replNode = this.copyChildren(replEntry, this.replNode, true)
onceKeepChildren(s1) == onceKeep(s1, copyChildren(s1, s1.last))

\* listReplaceOnce, original entry without a parent: after removeChildren
onceRefill(s2, origEntry) ==
    onceKeep(IF firstChildOf(s2, s2.last) # 0
             THEN copyToTarget(s2, s2.last, origEntry, s2.copyNodes)
             ELSE \* origEntry.appendChild(replChild)
                  Raise(s2, "ReferenceError"),
             NodeEntry(s2.last))

\* one round of listReplaceOnce once replEntry is chosen (s1.last)
onceWithEntry(s1, origEntry) ==
    IF ~Ok(s1) THEN s1
    ELSE IF isDocument(s1, s1.last)
    THEN IF ~isDocument(s1, origEntry) THEN Raise(s1, "TypeError")
         ELSE copyToTarget(clearChildren(onceKeepChildren(s1), origEntry),
                           s1.last, origEntry, s1.copyNodes)
    ELSE IF isDocumentFragment(s1, origEntry)
    THEN IF isDocumentFragment(s1, s1.last)
         THEN copyToTarget(onceKeepChildren(clearChildren(s1, origEntry)),
                           s1.last, origEntry, s1.copyNodes)
         ELSE appendChild(
                 IF s1.getNewList
                 THEN Push(clearChildren(s1, origEntry), NodeEntry(s1.last))
                 ELSE Count(clearChildren(s1, origEntry)),
                 origEntry, s1.last)
    ELSE IF parentNode(s1, origEntry) # 0
    THEN directReplaceMethods(
            onceKeep(s1, IF isDocumentFragment(s1, s1.last)
                         THEN copyChildren(s1, s1.last)
                         ELSE NodeEntry(s1.last)),
            origEntry, s1.last)
    ELSE onceRefill(clearChildren(s1, origEntry), origEntry)

\* one round of the loop of this.listReplaceOnce
onceEntry(s, origEntry, replEntry) ==
    IF ~Ok(s) \/ ~isNodeValue(origEntry) THEN s
    ELSE IF isDocument(s, origEntry) /\ ~isDocument(s, replEntry)
    THEN Raise(s, "TypeError")
    ELSE IF ~isNodeValue(replEntry) THEN Raise(s, "TypeError")
    ELSE onceWithEntry(copyOrSame(s, s.copyNodes, replEntry), origEntry)

RECURSIVE onceLoop(_, _)
onceLoop(s, idx) ==
    IF ~Ok(s) \/ idx < 1 THEN s
    ELSE onceLoop(onceEntry(s, s.orig[idx],
                            IF idx <= Len(s.static) THEN s.static[idx]
                            ELSE NotANode),
                  idx - 1)

\* return this.getNewList ? this.replNode : numRepl
ReturnListOrNumber(s) ==
    IF ~Ok(s) THEN s
    ELSE IF s.getNewList
    THEN [s EXCEPT !.ret = [kind |-> "array", num |-> Len(s.replNode)]]
    ELSE [s EXCEPT !.ret = [kind |-> "number", num |-> s.numRepl]]

\* return this.getNewList ? this.replNode[0] : 1, or 0
ReturnFirstOrOne(s) ==
    IF ~Ok(s) THEN s
    ELSE IF ~s.res THEN [s EXCEPT !.ret = [kind |-> "number", num |-> 0]]
    ELSE IF ~s.getNewList
    THEN [s EXCEPT !.ret = [kind |-> "number", num |-> 1]]
    ELSE [s EXCEPT !.ret =
             [kind |-> IF s.replNode = <<>> THEN "undefined"
                       ELSE IF s.replNode[1].arr THEN "array" ELSE "node",
              num |-> 0]]

\* targetLength of listReplaceOnce
targetLength(s) ==
    IF Len(s.orig) <= Len(s.replacement.items)
    THEN Len(s.orig) ELSE Len(s.replacement.items)

\* this.listReplaceOnce
listReplaceOnce(s) ==
    ReturnListOrNumber(onceLoop(setStaticList(s), targetLength(s)))

\* the replaceFn handed to tryReplacingOrig
replaceFn(s, fn, entry, idx) ==
    IF fn = "byDirectReplace" THEN byDirectReplace(s, entry, idx)
    ELSE listReplaceEach(s, entry, idx)

\* replaceOrigList: after replaceFn(entry, index)
origListReplaced(s1, entry, prevLen) ==
    IF ~Ok(s1) \/ ~s1.res THEN s1
    ELSE IF s1.getNewList
    THEN (IF Len(s1.replNode) = prevLen THEN Push(s1, NodeEntry(entry))
          ELSE s1)
    ELSE Count(s1)

RECURSIVE origListLoop(_, _, _)
origListLoop(s, fn, idx) ==
    IF ~Ok(s) \/ idx < 1 THEN s
    ELSE IF ~isNodeValue(s.orig[idx]) THEN origListLoop(s, fn, idx - 1)
    ELSE origListLoop(origListReplaced(replaceFn(s, fn, s.orig[idx], idx),
                                       s.orig[idx], Len(s.replNode)),
                      fn, idx - 1)

\* this.replaceOrigList
replaceOrigList(s, fn) ==
    ReturnListOrNumber(origListLoop(s, fn, Len(s.orig)))

\* this.tryReplacingOrig
tryReplacingOrig(s, fn) ==
    IF ~s.original.list /\ isNodeValue(s.original.node)
    THEN ReturnFirstOrOne(replaceFn(s, fn, s.original.node, 0))
    ELSE IF s.isOrigList THEN replaceOrigList(s, fn)
    ELSE Raise(s, "TypeError")

\* this.checkParamList of a modelled argument (lists are never empty)
checkParamList(v) == v.list

\* this.checkOptions: an undefined options argument leaves the three
\* fields of "this" as they are
checkOptions(s, options) ==
    IF ~options.given THEN s
    ELSE [s EXCEPT !.copyNodes = options.copyNodes,
                   !.getNewList = options.getNewList,
                   !.replaceOnce = options.replaceOnce]

\* tryMethods: this.isOrigList = ...; if (this.getNewList) this.replNode = []
prepare(s0) ==
    [s0 EXCEPT !.isOrigList = checkParamList(s0.original),
               !.replNode = IF s0.getNewList THEN <<>> ELSE @]

\* tryMethods: the dispatch on the replacement
dispatch(s2) ==
    IF ~s2.replacement.list /\ isNodeValue(s2.replacement.node)
    THEN tryReplacingOrig(s2, "byDirectReplace")
    ELSE IF checkParamList(s2.replacement)
    THEN (IF s2.isOrigList /\ s2.replaceOnce
          THEN listReplaceOnce(s2)
          ELSE tryReplacingOrig(s2, "listReplaceEach"))
    ELSE Raise(s2, "TypeError")

\* this.tryMethods of replaceNode
replaceNodeTryMethods(s, options) == dispatch(prepare(checkOptions(s, options)))

(***************************************************************************)
(* replaceNode(original, replacement, options): one call.                  *)
(***************************************************************************)
\* the state a call starts in
CallState(o, r) ==
    [kids |-> dom.kids, type |-> dom.type, cloneOf |-> dom.cloneOf,
     exc |-> "none", last |-> 0, api |-> browser,
     copyNodes |-> copyNodes, getNewList |-> getNewList,
     replaceOnce |-> replaceOnce, isOrigList |-> isOrigList,
     static |-> replStaticList, replNode |-> replNode,
     original |-> o, replacement |-> r, orig |-> o.items,
     numRepl |-> 0, listCopies |-> <<>>, res |-> FALSE,
     ret |-> [kind |-> "none", num |-> 0]]

\* what a call leaves behind: the forest, the fields of "this", its result
Finish(s, o, r, options) ==
    /\ s.exc # "PoolExhausted"
    /\ dom' = [kids |-> s.kids, type |-> s.type, cloneOf |-> s.cloneOf]
    /\ copyNodes' = s.copyNodes
    /\ getNewList' = s.getNewList
    /\ replaceOnce' = s.replaceOnce
    /\ isOrigList' = s.isOrigList
    /\ replStaticList' = s.static
    /\ replNode' = s.replNode
    /\ call' = [original |-> o, replacement |-> r, options |-> options]
    /\ result' = [kind |-> IF Ok(s) THEN s.ret.kind ELSE "throw",
                  num |-> s.ret.num, exc |-> s.exc, orig |-> s.orig]

replaceNode ==
    /\ calls < MaxCalls
    /\ \E o \in Originals, r \in Replacements, options \in Options :
          Finish(replaceNodeTryMethods(CallState(o, r), options), o, r,
                 options)
    /\ before' = dom
    /\ calls' = calls + 1
    /\ UNCHANGED <<browser, rcVars, gcVars>>

(***************************************************************************)
(* Properties of replaceNode. They compare the forest before the last call *)
(* (before) with the forest after it (dom), for the arguments of that call *)
(* (call) and what it returned or threw (result).                          *)
(***************************************************************************)
Called == calls > 0

Returned == Called /\ result.kind # "throw"

\* a browser with at least one mechanism to replace a child
SupportsReplacement == browser # {}

\* the entries of an argument, a single value counting as a list of one
Entries(v) == IF v.list THEN v.items ELSE <<v.node>>

\* the Nodes among them
NodesOf(v) == Range(Entries(v)) \ {NotANode}

Descendants(d, n) ==
    LET RECURSIVE Below(_)
        Below(m) == {m} \cup UNION {Below(c) : c \in Range(d.kids[m])}
    IN  Below(n)

\* the node c was copied from, through any number of copies
RECURSIVE OriginOf(_)
OriginOf(c) == IF dom.cloneOf[c] = 0 THEN c ELSE OriginOf(dom.cloneOf[c])

\* c was made by the call as a copy of r
IsFreshCopy(c, r) == before.type[c] = Unallocated /\ OriginOf(c) = r

\* c is r or a copy of r the call made
IsRepl(c, r) == c = r \/ IsFreshCopy(c, r)

\* actual is the sequence repl, node by node (fresh: copies only)
MatchRepl(actual, repl, fresh) ==
    /\ Len(actual) = Len(repl)
    /\ \A j \in 1..Len(repl) :
          IF fresh THEN IsFreshCopy(actual[j], repl[j])
          ELSE IsRepl(actual[j], repl[j])

\* actual is old with every member of origs replaced by the sequence repl
RECURSIVE ReplacedIn(_, _, _, _, _)
ReplacedIn(actual, old, origs, repl, fresh) ==
    IF old = <<>> THEN actual = <<>>
    ELSE IF Head(old) \in origs
    THEN /\ Len(actual) >= Len(repl)
         /\ MatchRepl(SubSeq(actual, 1, Len(repl)), repl, fresh)
         /\ ReplacedIn(SubSeq(actual, Len(repl) + 1, Len(actual)), Tail(old),
                       origs, repl, fresh)
    ELSE /\ actual # <<>>
         /\ Head(actual) = Head(old)
         /\ ReplacedIn(Tail(actual), Tail(old), origs, repl, fresh)

\* seq without the members of a set
Except(seq, set) ==
    LET Keep(c) == c \notin set IN SelectSeq(seq, Keep)

\* C1: when original is a single Node with a parent and the call reports a
\* replacement, the parent's child list afterwards is its old child list
\* with original replaced, at the same index, by the replacement Nodes (or
\* their copies) in the order of the replacement argument; the other
\* children keep their order and original is no child of the parent.
C1_AttachedOriginalReplacedInPlace ==
    (/\ Returned
     /\ ~call.original.list
     /\ parentNode(before, call.original.node) # 0
     /\ ~(result.kind = "number" /\ result.num = 0))
    => LET o == call.original.node
           p == parentNode(before, o)
       IN  /\ o \notin Range(dom.kids[p])
           /\ ReplacedIn(dom.kids[p],
                         Except(before.kids[p], NodesOf(call.replacement)),
                         {o}, Entries(call.replacement), FALSE)

\* C5: with replaceOnce not set and a list of originals, every attached
\* Node of the list is replaced by a fresh deep copy of every replacement
\* Node, so each former position holds its own copy of the whole
\* replacement sequence.
C5_EveryOriginalGetsItsOwnCopies ==
    (/\ Returned
     /\ SupportsReplacement
     /\ call.original.list
     /\ ~(call.options.given /\ call.options.replaceOnce))
    => \A p \in Ids :
          Range(before.kids[p]) \cap NodesOf(call.original) # {}
          => ReplacedIn(dom.kids[p], before.kids[p], NodesOf(call.original),
                        Entries(call.replacement), TRUE)

\* C6: with options.copyNodes true no Node of the replacement argument and
\* none of its descendants is moved: each has the parent and the children
\* it had before the call.
C6_CopyNodesLeavesReplacementAlone ==
    (Called /\ call.options.given /\ call.options.copyNodes)
    => \A r \in NodesOf(call.replacement) :
          \A n \in Descendants(before, r) :
             /\ parentNode(dom, n) = parentNode(before, n)
             /\ dom.kids[n] = before.kids[n]

\* C7: a call that pairs a Document original with a replacement Node that
\* is no Document throws and leaves the children of the Document as they
\* were; a call that pairs a Document replacement with an original Node
\* that is no Document throws a TypeError.
C7_DocumentGuard ==
    /\ (/\ Called
        /\ ~call.original.list
        /\ isDocument(before, call.original.node)
        /\ \E r \in NodesOf(call.replacement) : ~isDocument(before, r))
       => /\ result.kind = "throw"
          /\ dom.kids[call.original.node] = before.kids[call.original.node]
    /\ (/\ Called
        /\ ~call.replacement.list
        /\ isDocument(before, call.replacement.node)
        /\ \E o \in NodesOf(call.original) : ~isDocument(before, o))
       => /\ result.kind = "throw"
          /\ result.exc = "TypeError"

\* the shorter length of the two lists of a call
PairedLength ==
    IF Len(call.original.items) <= Len(call.replacement.items)
    THEN Len(call.original.items) ELSE Len(call.replacement.items)

\* n is as it was before the call
Untouched(n) ==
    /\ parentNode(dom, n) = parentNode(before, n)
    /\ dom.kids[n] = before.kids[n]

\* C8: with replaceOnce true and two lists the call completes, every
\* attached original[i] below the shorter length has replacement[i] alone
\* in its place, and every entry of the longer list from the shorter
\* length on keeps its parent, its children and its list slot.
C8_ReplaceOncePairsByIndex ==
    (/\ Called
     /\ SupportsReplacement
     /\ call.options.given /\ call.options.replaceOnce
     /\ call.original.list /\ call.replacement.list)
    => LET O == call.original.items
           R == call.replacement.items
       IN  /\ result.kind # "throw"
           /\ \A i \in 1..PairedLength :
                 (O[i] # NotANode /\ parentNode(before, O[i]) # 0)
                 => LET p == parentNode(before, O[i])
                        k == IndexOf(before.kids[p], O[i])
                    IN  /\ Len(dom.kids[p]) = Len(before.kids[p])
                        /\ IsRepl(dom.kids[p][k], R[i])
           /\ \A i \in (PairedLength + 1)..Len(O) :
                 /\ result.orig[i] = O[i]
                 /\ O[i] # NotANode => Untouched(O[i])
           /\ \A i \in (PairedLength + 1)..Len(R) :
                 R[i] # NotANode => Untouched(R[i])

\* what a replacement Node r gives to an original without a parent: its
\* children if it has any, else itself
Contribution(r) == IF before.kids[r] # <<>> THEN before.kids[r] ELSE <<r>>

RECURSIVE Contributions(_)
Contributions(repl) ==
    IF repl = <<>> THEN <<>>
    ELSE Contribution(Head(repl)) \o Contributions(Tail(repl))

\* the replacement Nodes paired with original entry i (0: a single Node)
PairedWith(i) ==
    IF /\ call.original.list /\ call.replacement.list
       /\ call.options.given /\ call.options.replaceOnce
    THEN IF i <= Len(call.replacement.items)
         THEN <<call.replacement.items[i]>> ELSE <<>>
    ELSE Entries(call.replacement)

\* C9: an original without a parent that is an Element and no Array entry
\* loses its children and gets, for each replacement Node paired with it
\* and in their order, the children of that Node if it has any, else the
\* Node itself (or copies of them).
C9_UnattachedOriginalRefilled ==
    Called =>
       \A i \in DOMAIN Entries(call.original) :
          LET o == Entries(call.original)[i] IN
          (/\ o # NotANode
           /\ ~call.original.array
           /\ before.type[o] = ELEMENT_NODE
           /\ parentNode(before, o) = 0
           /\ PairedWith(i) # <<>>
           /\ \A r \in NodesOf(call.replacement) :
                 before.type[r] = ELEMENT_NODE /\ o \notin Descendants(before, r))
          => /\ result.kind # "throw"
             /\ MatchRepl(dom.kids[o], Contributions(PairedWith(i)), FALSE)

\* C10: when options.getNewList is not set the call returns an integer: 0
\* or 1 for a single original, and for a list at most the number of its
\* Node entries, entries that are no Nodes never being counted.
C10_DefaultReturnIsCount ==
    (Returned /\ ~(call.options.given /\ call.options.getNewList))
    => /\ result.kind = "number"
       /\ result.num >= 0
       /\ result.num <= Cardinality({i \in DOMAIN Entries(call.original) :
                                       Entries(call.original)[i] # NotANode})

\* C11: when options.getNewList is true every call that completes returns
\* an Array, also for a single original, a DocumentFragment original and
\* an Array entry; never a bare Node, a number or undefined.
C11_GetNewListReturnsArray ==
    (Returned /\ call.options.given /\ call.options.getNewList)
    => result.kind = "array"

(***************************************************************************)
(* Part III: getAllComments(options).                                      *)
(*                                                                         *)
(* The function is called plainly, so "this" and "self" are both the       *)
(* global object and every method it stores on "this" is found again when  *)
(* a method is called through a bare reference.                            *)
(***************************************************************************)
MaxNodes == 3

\* what a node below the container is: an Element, or a Comment with the
\* given text
GcKinds == {"element", "test", "TEST", "testing"}

\* the parent and the kind of every node 2..n+1: a parent is created before
\* its children, and only the container and Elements have children
GcShapes(n) ==
    {pk \in [2..(n + 1) -> 1..n] \X [2..(n + 1) -> GcKinds] :
        \A i \in 2..(n + 1) :
            /\ pk[1][i] < i
            /\ pk[1][i] = 1 \/ pk[2][pk[1][i]] = "element"}

\* the tree of n nodes below a container of the given nodeType
GcTree(n, rootType, par, kind) ==
    [root   |-> 1,
     kids   |-> [p \in 1..(n + 1) |->
                    SelectSeq([i \in 1..(n + 1) |-> i],
                              LAMBDA i : i > 1 /\ par[i] = p)],
     parent |-> [i \in 1..(n + 1) |-> IF i = 1 THEN 0 ELSE par[i]],
     type   |-> [i \in 1..(n + 1) |->
                    IF i = 1 THEN rootType
                    ELSE IF kind[i] = "element" THEN ELEMENT_NODE
                    ELSE COMMENT_NODE],
     text   |-> [i \in 1..(n + 1) |->
                    IF i = 1 \/ kind[i] = "element" THEN "" ELSE kind[i]]]

GcTrees(rootType) ==
    UNION {{GcTree(n, rootType, pk[1], pk[2]) : pk \in GcShapes(n)} :
              n \in 0..MaxNodes}

\* the options argument; without it the container is the document and
\* nothing is searched for
GcNoOptions ==
    [given |-> FALSE, search |-> "undefined",
     caseSensitive |-> FALSE, wholeWord |-> FALSE]

GcOptions ==
    {GcNoOptions}
    \cup {[given |-> TRUE, search |-> s,
           caseSensitive |-> FALSE, wholeWord |-> FALSE] :
             s \in {"undefined", "number", ""}}
    \cup {[given |-> TRUE, search |-> "test",
           caseSensitive |-> cs, wholeWord |-> ww] :
             cs \in BOOLEAN, ww \in BOOLEAN}

\* browsers: the traversal APIs they have and the properties of a Comment
\* that hold its text
GcBrowsers ==
    {[support   |-> {"createTreeWalker", "shortSyntax", "Comment",
                     "firstChild", "nextSibling",
                     "childNodes", "hasChildNodes"},
      textProps |-> {"nodeValue", "textContent"}],
     [support   |-> {"createTreeWalker", "Comment",
                     "firstChild", "nextSibling",
                     "childNodes", "hasChildNodes"},
      textProps |-> {}],
     [support   |-> {"createTreeWalker",
                     "firstChild", "nextSibling",
                     "childNodes", "hasChildNodes"},
      textProps |-> {"nodeValue"}],
     [support   |-> {"Comment", "firstChild", "nextSibling",
                     "childNodes", "hasChildNodes"},
      textProps |-> {"textContent"}],
     [support   |-> {"firstChild", "nextSibling", "childNodes"},
      textProps |-> {}],
     [support   |-> {"firstChild", "childNodes", "hasChildNodes"},
      textProps |-> {"innerHTML"}],
     [support   |-> {"Comment", "nextSibling", "childNodes"},
      textProps |-> {"nodeValue", "textContent", "innerHTML"}],
     [support   |-> {"nextSibling", "childNodes"},
      textProps |-> {}],
     [support   |-> {"Comment"},
      textProps |-> {"nodeValue", "textContent"}]}

\* the result of a traversal: the Comments found so far, and the exception
\* that ended it
NoComments == [exc |-> "none", nodes |-> <<>>]

Found(res, n) == [res EXCEPT !.nodes = Append(@, n)]

Thrown(e) == [exc |-> e, nodes |-> <<>>]

\* result.concat(more), where evaluating "more" may have thrown
Concat(res, more) ==
    IF more.exc # "none" THEN Thrown(more.exc)
    ELSE [res EXCEPT !.nodes = @ \o more.nodes]

\* "if (search)": undefined and the empty string are falsy, a RegExp is not
Truthy(s) == s.kind = "regexp"

\* search.test(text) for the RegExp built from the phrase "test"
RegExpTest(re, text) ==
    IF re.source = "test"
    THEN IF re.flags = "i"
         THEN text \in {"test", "TEST", "testing"}
         ELSE text \in {"test", "testing"}
    ELSE IF re.flags = "i"
         THEN text \in {"test", "TEST"}
         ELSE text = "test"

\* checkSearchOption: the value "search" holds when the options are valid
compileSearch(o) ==
    IF o.search = "undefined" THEN [kind |-> "undefined", source |-> "",
                                    flags |-> ""]
    ELSE IF o.search = "" THEN [kind |-> "string", source |-> "",
                                flags |-> ""]
    ELSE [kind   |-> "regexp",
          source |-> IF o.wholeWord THEN "\\b" \o o.search \o "\\b"
                     ELSE o.search,
          flags  |-> IF o.caseSensitive THEN "" ELSE "i"]

isComment(n) ==
    IF "Comment" \in support
    THEN container.type[n] = COMMENT_NODE      \* n instanceof Comment
    ELSE n # 0 /\ container.type[n] = COMMENT_NODE

\* getCommentText: "throw" when no property of the Comment holds its text
CanGetCommentText ==
    \/ "nodeValue" \in textProps
    \/ "textContent" \in textProps
    \/ "innerHTML" \in textProps

getCommentText(n) == container.text[n]

\* search.test(getCommentText(n)) as "yes", "no" or "throw"
searchTest(n) ==
    IF ~CanGetCommentText THEN "throw"
    ELSE IF RegExpTest(search, getCommentText(n)) THEN "yes" ELSE "no"

commentMatch(n) == IF isComment(n) THEN searchTest(n) ELSE "no"

(***************************************************************************)
(* Strategy 1: TreeWalker (the DOM's traversal algorithm).                 *)
(***************************************************************************)
\* the filter newTreeWalker hands to createTreeWalker
acceptNode(n) ==
    IF Truthy(search)
    THEN IF searchTest(n) = "throw" THEN "throw"
         ELSE IF searchTest(n) = "yes" THEN "FILTER_ACCEPT"
         ELSE "FILTER_REJECT"
    ELSE IF "shortSyntax" \in support
    THEN "FILTER_ACCEPT"        \* createTreeWalker(container, SHOW_COMMENT)
    ELSE "FILTER_ACCEPT"        \* that call threw: the filter of the catch

\* filtering a node: whatToShow is SHOW_COMMENT, other nodes are skipped
\* without asking the filter
filterNode(n) ==
    IF container.type[n] # COMMENT_NODE THEN "FILTER_SKIP" ELSE acceptNode(n)

RECURSIVE walkDown(_, _)
RECURSIVE walkUp(_)

\* the walker moved to n: accepted, or the walk goes on from n
walkTo(n, r) ==
    IF r = "throw" THEN [node |-> 0, exc |-> "ReferenceError"]
    ELSE IF r = "FILTER_ACCEPT" THEN [node |-> n, exc |-> "none"]
    ELSE walkDown(n, r)

\* first child of n unless n was rejected, else onwards
walkDown(n, r) ==
    IF r # "FILTER_REJECT" /\ firstChild(container.kids[n]) # 0
    THEN walkTo(firstChild(container.kids[n]),
                filterNode(firstChild(container.kids[n])))
    ELSE walkUp(n)

\* the next sibling of n or of its nearest ancestor below the root
walkUp(n) ==
    IF n = container.root THEN [node |-> 0, exc |-> "none"]
    ELSE IF nextSibling(container.kids[container.parent[n]], n) # 0
    THEN walkTo(nextSibling(container.kids[container.parent[n]], n),
                filterNode(nextSibling(container.kids[container.parent[n]],
                                       n)))
    ELSE walkUp(container.parent[n])

\* walker.nextNode() from walker.currentNode
nextNode(currentNode) == walkDown(currentNode, "FILTER_ACCEPT")

RECURSIVE walkerLoop(_, _)
\* while (walker.nextNode()) result.push(walker.currentNode)
walkerLoop(currentNode, res) ==
    IF nextNode(currentNode).exc # "none"
    THEN Thrown(nextNode(currentNode).exc)
    ELSE IF nextNode(currentNode).node = 0 THEN res
    ELSE walkerLoop(nextNode(currentNode).node,
                    Found(res, nextNode(currentNode).node))

newTreeWalker == "createTreeWalker" \in support

byTreeWalkerResult == walkerLoop(container.root, NoComments)

(***************************************************************************)
(* Strategy 2: firstChild / nextSibling recursion.                         *)
(***************************************************************************)
\* the validFn bySibling passes
siblingValidFn(n) ==
    IF Truthy(search)
    THEN (IF isComment(n) THEN searchTest(n) ELSE "no")
    ELSE (IF isComment(n) THEN "yes" ELSE "no")

RECURSIVE bySiblingTraversal(_)
RECURSIVE siblingLoop(_, _, _)

\* the body of the while loop for one child
siblingVisit(cur, res) ==
    IF siblingValidFn(cur) = "throw" THEN Thrown("ReferenceError")
    ELSE IF siblingValidFn(cur) = "yes" THEN Found(res, cur)
    ELSE IF firstChild(container.kids[cur]) # 0
    THEN Concat(res, bySiblingTraversal(cur))
    ELSE res

siblingLoop(nodeParent, cur, res) ==
    IF cur = 0 \/ res.exc # "none" THEN res
    ELSE siblingLoop(nodeParent,
                     nextSibling(container.kids[nodeParent], cur),
                     siblingVisit(cur, res))

bySiblingTraversal(nodeParent) ==
    siblingLoop(nodeParent, firstChild(container.kids[nodeParent]),
                NoComments)

bySiblingSupported == {"firstChild", "nextSibling"} \subseteq support

(***************************************************************************)
(* Strategy 3: childNodes index recursion.                                 *)
(***************************************************************************)
\* validFn = search ? this.commentMatch : this.isComment
childNodesValidFn(n) ==
    IF Truthy(search) THEN commentMatch(n)
    ELSE IF isComment(n) THEN "yes" ELSE "no"

hasChildFnMut(n) == FALSE

\* node.hasChildNodes(), or !!node.childNodes.length
hasChildFn(n) ==
    IF "hasChildNodes" \in support
    THEN container.kids[n] # <<>>
    ELSE Len(container.kids[n]) # 0

RECURSIVE childNodesTraversal(_)
RECURSIVE childNodesLoop(_, _, _)

\* the body of the for loop for one child
childNodesVisit(cur, res) ==
    IF childNodesValidFn(cur) = "throw" THEN Thrown("ReferenceError")
    ELSE IF childNodesValidFn(cur) = "yes" THEN Found(res, cur)
    ELSE IF hasChildFn(cur) THEN Concat(res, childNodesTraversal(cur))
    ELSE res

\* idx is the 0-based loop index
childNodesLoop(nodeParent, idx, res) ==
    IF ~(idx < Len(container.kids[nodeParent])) \/ res.exc # "none" THEN res
    ELSE childNodesLoop(nodeParent, idx + 1,
                        childNodesVisit(container.kids[nodeParent][idx + 1],
                                        res))

childNodesTraversal(nodeParent) == childNodesLoop(nodeParent, 0, NoComments)

byChildNodesSupported == "childNodes" \in support

(***************************************************************************)
(* The call, step by step.                                                 *)
(***************************************************************************)
\* a strategy returned or threw: getAllComments returns its Array or throws
GcReturn(by, res) ==
    /\ gcPc' = "done"
    /\ comments' = [kind  |-> IF res.exc = "none" THEN "array" ELSE "throw",
                    exc   |-> res.exc,
                    nodes |-> res.nodes,
                    by    |-> by]

\* a strategy returned null: tryMethods goes on with the next one
GcFallThrough(next) ==
    /\ gcPc' = next
    /\ UNCHANGED comments

\* setApiRef and checkOptions
getAllComments ==
    /\ gcPc = "checkOptions"
    /\ IF gcOptions.search = "number"
       THEN /\ GcReturn("checkSearchOption", Thrown("TypeError"))
            /\ UNCHANGED search
       ELSE /\ search' = compileSearch(gcOptions)
            /\ GcFallThrough("byTreeWalker")
    /\ UNCHANGED <<container, gcOptions, support, textProps, rcVars, rnVars>>

byTreeWalker ==
    /\ gcPc = "byTreeWalker"
    /\ IF newTreeWalker
       THEN GcReturn("byTreeWalker", byTreeWalkerResult)
       ELSE GcFallThrough("bySibling")
    /\ UNCHANGED <<container, gcOptions, support, textProps, search,
                   rcVars, rnVars>>

bySibling ==
    /\ gcPc = "bySibling"
    /\ IF bySiblingSupported
       THEN GcReturn("bySibling", bySiblingTraversal(container.root))
       ELSE GcFallThrough("byChildNodes")
    /\ UNCHANGED <<container, gcOptions, support, textProps, search,
                   rcVars, rnVars>>

\* the last strategy; when it returns null too, tryMethods throws
byChildNodes ==
    /\ gcPc = "byChildNodes"
    /\ IF byChildNodesSupported
       THEN GcReturn("byChildNodes", childNodesTraversal(container.root))
       ELSE GcReturn("tryMethods", Thrown("ReferenceError"))
    /\ UNCHANGED <<container, gcOptions, support, textProps, search,
                   rcVars, rnVars>>

gcNext == getAllComments \/ byTreeWalker \/ bySibling \/ byChildNodes

\* the call as made: a container tree, the options and a browser
gcInit ==
    /\ gcOptions \in GcOptions
    /\ container \in GcTrees(IF gcOptions.given THEN ELEMENT_NODE
                             ELSE DOCUMENT_NODE)
    /\ \E b \in GcBrowsers : support = b.support /\ textProps = b.textProps
    /\ search = compileSearch(GcNoOptions)
    /\ gcPc = "checkOptions"
    /\ comments = [kind |-> "none", exc |-> "none", nodes |-> <<>>,
                   by |-> "none"]

\* getAllComments not in use
gcIdle ==
    /\ gcOptions = GcNoOptions
    /\ container = GcTree(0, DOCUMENT_NODE, <<>>, <<>>)
    /\ support = {}
    /\ textProps = {}
    /\ search = compileSearch(GcNoOptions)
    /\ gcPc = "idle"
    /\ comments = [kind |-> "none", exc |-> "none", nodes |-> <<>>,
                   by |-> "none"]

(***************************************************************************)
(* Properties of getAllComments.                                           *)
(***************************************************************************)
RECURSIVE DocumentOrder(_)
\* the nodes below the given siblings, each before its descendants and
\* before the siblings after it
DocumentOrder(siblings) ==
    IF siblings = <<>> THEN <<>>
    ELSE <<Head(siblings)>> \o DocumentOrder(container.kids[Head(siblings)])
                            \o DocumentOrder(Tail(siblings))

CommentsBelow ==
    SelectSeq(DocumentOrder(container.kids[container.root]),
              LAMBDA n : container.type[n] = COMMENT_NODE)

\* a search was asked for and no property gives the text of a Comment
TextUnreadable ==
    Truthy(search) /\ ~CanGetCommentText /\ CommentsBelow # <<>>

\* what the documentation promises: the Comments of the container that
\* contain the phrase, in document order
Matching ==
    IF TextUnreadable THEN Thrown("ReferenceError")
    ELSE [exc   |-> "none",
          nodes |-> SelectSeq(CommentsBelow,
                       LAMBDA n : Truthy(search)
                                    => RegExpTest(search, container.text[n]))]

NoneSupported ==
    ~newTreeWalker /\ ~bySiblingSupported /\ ~byChildNodesSupported

OptionsChecked == gcPc \in {"byTreeWalker", "bySibling", "byChildNodes"}

GcReturned == gcPc = "done" /\ comments.exc # "TypeError"

\* the three strategies find the same Comments in document order, and the
\* call returns them whenever one strategy is supported
StrategiesAgree ==
    /\ (OptionsChecked \/ GcReturned) =>
          /\ byTreeWalkerResult = Matching
          /\ bySiblingTraversal(container.root) = Matching
          /\ childNodesTraversal(container.root) = Matching
    /\ (GcReturned /\ ~NoneSupported) =>
          [exc |-> comments.exc, nodes |-> comments.nodes] = Matching

\* C12: the three traversal strategies return the same Comment nodes in the
\* same document order for every container tree and every search option, so
\* the result does not depend on the DOM APIs supported; a ReferenceError is
\* thrown only when none of the three is supported.
C12_StrategyEquivalence ==
    /\ StrategiesAgree
    /\ (GcReturned /\ comments.exc = "ReferenceError") => NoneSupported

\* C12 as amended: the same equivalence; a ReferenceError is thrown only
\* when none of the three is supported, or when a search phrase is given
\* and no property of a Comment in the tree gives its text, and then under
\* every strategy alike.
C12_StrategyEquivalenceAmended ==
    /\ StrategiesAgree
    /\ (GcReturned /\ comments.exc = "ReferenceError")
          => (NoneSupported \/ TextUnreadable)
    /\ (GcReturned /\ (NoneSupported \/ TextUnreadable))
          => comments.exc = "ReferenceError"

\* C12 witness: the last strategy of the cascade returned, for a search, two
\* Comments of which the first in document order lies deeper in the tree
\* and was created later than the second.
C12_Witness ==
    /\ GcReturned
    /\ comments.by = "byChildNodes"
    /\ Truthy(search)
    /\ Len(comments.nodes) = 2
    /\ comments.nodes[1] > comments.nodes[2]
    /\ container.parent[comments.nodes[1]] # container.root

(***************************************************************************)
(* Initial states and specifications.                                      *)
(***************************************************************************)
\* the page as loaded, the script defined, replaceNode never called: no
\* field of "this" is set
rnPage ==
    /\ dom = [kids |-> WorldKids, type |-> WorldType,
              cloneOf |-> [i \in Ids |-> 0]]
    /\ copyNodes = FALSE
    /\ getNewList = FALSE
    /\ replaceOnce = FALSE
    /\ isOrigList = FALSE
    /\ replStaticList = <<>>
    /\ replNode = <<>>
    /\ calls = 0
    /\ call = [original |-> Single(NotANode), replacement |-> Single(NotANode),
               options |-> NoOptions]
    /\ before = dom
    /\ result = [kind |-> "none", num |-> 0, exc |-> "none", orig |-> <<>>]

rnInit == browser \in Browsers /\ rnPage

\* removeChildren not in use
rcIdle ==
    /\ node = NotANode
    /\ childTypes = <<>>
    /\ childNodes = <<>>
    /\ removeElements = FALSE
    /\ forwards = "undefined"
    /\ api = {}
    /\ ElementGlobal = "class"
    /\ pc = "idle"
    /\ inLoop = FALSE
    /\ via = "none"
    /\ fallbacks = <<>>
    /\ current = 0
    /\ index = 0
    /\ ret = "none"
    /\ removed = <<>>

\* replaceNode not in use
rnIdle == browser = {} /\ rnPage

rnNext == replaceNode

\* removeChildren on a page where replaceNode is never called
InitRemove == rcInit /\ rnIdle /\ gcIdle

SpecRemove == InitRemove /\ [][rcNext]_vars

\* replaceNode on a page where removeChildren is never called
InitReplace == rnInit /\ rcIdle /\ gcIdle

SpecReplace == InitReplace /\ [][rnNext]_vars

\* getAllComments on a page where the other two are never called
InitComments == gcInit /\ rcIdle /\ rnIdle

SpecComments == InitComments /\ [][gcNext]_vars

====
